---- MODULE Spec2Model ----
(***************************************************************************)
(* Crawl orchestration and company-join engine of the LinkedIn jobs        *)
(* scraper (main.js): the request queue, the three request handlers        *)
(* (handleSearch, handleJobDetail, handleCompany), failedRequestHandler    *)
(* and pushResult, with up to maxConcurrency handlers interleaving at      *)
(* their awaits.  One action is one synchronous stretch of a handler,      *)
(* from the point where it resumes to its next await.                      *)
(***************************************************************************)
EXTENDS Integers, Sequences, FiniteSets, TLC

\* ---------------------------------------------------------------- bounds
NumJobs == 3
NumSearch == 2
NumSlugs == 1
MaxOtherRetries == 0

\* ------------------------------------------------------ program constants
maxConcurrency == 3
maxRequestRetries == 5
CompanyRetryLimit == 4

Jobs == 1..NumJobs
SearchPages == 1..NumSearch
Slugs == 1..NumSlugs
NoUrl == 0
SluglessUrl == NumJobs + 1
NoSlug == 0
Null == 0


\* uniqueKey of the COMPANY request a job's detail handler asks for
\* (`company-${slug}`): one key per slug, whichever job asks.
companyUniqueKeyPerJob(s, j) == s + NumSlugs * j
companyUniqueKey(s, j) == s

CompanyKeys == 1..(NumSlugs * (NumJobs + 1))
Req == ({"S"} \X SearchPages) \cup ({"D"} \X Jobs) \cup ({"C"} \X CompanyKeys)
SearchReq(n) == <<"S", n>>
DetailReq(j) == <<"D", j>>
CompanyReq(k) == <<"C", k>>
TypeOf(r) == r[1]
KeyOf(r) == r[2]
\* userData.slug of the COMPANY request with uniqueKey k
SlugOfKey(k) == ((k - 1) % NumSlugs) + 1

\* Outcome of one fetch as the handlers classify it: 200 with content, the
\* rate-limit statuses 429 and 999, a login wall, another non-200 status.
Outcomes == {"ok", "s429", "s999", "wall", "other"}
RateLimited(o) == o \in {"s429", "s999"}

\* Cards of search page n (parseJobCards): consecutive pages overlap, and
\* the pages with an even number list their cards in descending order.
PageSize == IF NumJobs >= NumSearch THEN NumJobs - NumSearch + 1 ELSE 1
CardId(n, i) ==
    LET k == IF n % 2 = 0 THEN PageSize + 1 - i ELSE i
    IN  ((n + k - 2) % NumJobs) + 1
CardsOf(n) == [i \in 1..PageSize |-> CardId(n, i)]

\* Company data parsed from the company page of slug s (parseCompanyPage):
\* a non-null field set, distinct per company.
parseCompanyPage(s) == s

\* JavaScript Map operations on functions with a varying domain.
MapHas(m, k) == k \in DOMAIN m
MapSet(m, k, v) == [x \in (DOMAIN m) \cup {k} |-> IF x = k THEN v ELSE m[x]]
MapGet(m, k) == IF k \in DOMAIN m THEN m[k] ELSE Null
MapDelete(m, k) == [x \in (DOMAIN m) \ {k} |-> m[x]]
EmptyMap == [x \in {} |-> Null]

VARIABLES
    maxItems, scrapeJobDetails, scrapeCompany, companyUrl, numPages, flaky,
    queue, known, retryCount, pc, pushing, idx, wasAlreadyPresent, todo, companyData,
    pendingJobs, scrapedIds, totalScraped, companyCache, pendingCompanies,
    pushes, sink, enqueued, parked, parsed, inflightAtCap, capInFlight,
    failedReqs, searchAhead,
    input, startPc, entryIdx, requestQueue, enqueueCalls, paths,
    arg, res

config == <<maxItems, scrapeJobDetails, scrapeCompany, companyUrl, numPages,
           flaky>>
locals == <<idx, wasAlreadyPresent, todo, companyData>>
queueVars == <<queue, known, enqueued, pendingJobs>>
stateVars == <<scrapedIds, companyCache, pendingCompanies>>
sinkVars == <<pushes, sink, pushing>>
crawlVars == <<config, locals, queueVars, stateVars, sinkVars, retryCount, pc,
               totalScraped, parked, parsed, inflightAtCap, capInFlight,
               failedReqs, searchAhead>>
\* The startup code's state, and the argument and results of a function of
\* utils.js or parsers.js called on its own.
startVars == <<input, startPc, entryIdx, requestQueue, enqueueCalls, paths>>
callVars == <<arg, res>>
vars == <<crawlVars, startVars, callVars>>

\* The startup has been done with (its queue is `queue`); no call under way.
StartupOver ==
    /\ input = Null
    /\ startPc = "over"
    /\ entryIdx = 0
    /\ requestQueue = <<>>
    /\ enqueueCalls = <<>>
    /\ paths = {}
NoCall == arg = Null /\ res = <<>>

\* The record a search card carries (cardData), and the three waves.
CardWithDetail(j) ==
    [id |-> j, companyLinkedinUrl |-> companyUrl[j], detail |-> TRUE,
     company |-> Null]
Card(j) ==
    [id |-> j, companyLinkedinUrl |-> companyUrl[j], detail |-> FALSE,
     company |-> Null]
MergeDetail(card) == [card EXCEPT !.detail = TRUE]
AssignCompany(job, data) == [job EXCEPT !.company = data]

\* extractCompanySlug: the slug in a company URL (several URLs name the same
\* company), NoSlug when there is no URL or the URL has no /company/ part.
extractCompanySlug(url) ==
    IF url = NoUrl \/ url = SluglessUrl THEN NoSlug
    ELSE ((url - 1) % NumSlugs) + 1

InFlight == {r \in Req : pc[r] # "idle"}

\* Configured budgets tried: reached early, reached late, never reached.
MaxItemsChoices == {1, 2, NumJobs + 1}

\* Company URLs of the cards: each job has a URL of its own, except that
\* the last job may have none, or one that names no company.
CompanyUrlChoices ==
    {f \in [Jobs -> {NoUrl, SluglessUrl} \cup Jobs] :
        \A j \in Jobs :
            f[j] = j \/ (j = NumJobs /\ f[j] \in {NoUrl, SluglessUrl})}

Init ==
    /\ maxItems \in MaxItemsChoices
    /\ scrapeJobDetails \in BOOLEAN
    /\ scrapeCompany \in BOOLEAN
    /\ companyUrl \in CompanyUrlChoices
    /\ flaky \in BOOLEAN
    /\ flaky => companyUrl[NumJobs] = NumJobs
    /\ numPages = IF flaky THEN 1 ELSE NumSearch
    /\ queue = [n \in 1..numPages |-> SearchReq(n)]
    /\ known = {SearchReq(n) : n \in 1..numPages}
    /\ enqueued = [r \in Req |-> IF r \in known THEN 1 ELSE 0]
    /\ retryCount = [r \in Req |-> 0]
    /\ pc = [r \in Req |-> "idle"]
    /\ pushing = [r \in Req |-> FALSE]
    /\ idx = [r \in Req |-> 0]
    /\ wasAlreadyPresent = [r \in Req |-> FALSE]
    /\ todo = [r \in Req |-> <<>>]
    /\ companyData = [r \in Req |-> Null]
    /\ pendingJobs = [r \in Req |-> <<>>]
    /\ scrapedIds = {}
    /\ totalScraped = 0
    /\ companyCache = EmptyMap
    /\ pendingCompanies = EmptyMap
    /\ pushes = [j \in Jobs |-> 0]
    /\ sink = {}
    /\ parked = {}
    /\ searchAhead = [r \in Req |-> {}]
    /\ parsed = {}
    /\ inflightAtCap = 0
    /\ capInFlight = {}
    /\ failedReqs = {}
    /\ StartupOver
    /\ NoCall

\* ------------------------------------------------------------ the crawler

\* The crawler takes the request at the head of the queue when a worker is
\* free and starts fetching it.
Dequeue ==
    /\ queue # <<>>
    /\ Cardinality(InFlight) < maxConcurrency
    /\ pc' = [pc EXCEPT ![Head(queue)] = "fetch"]
    /\ queue' = Tail(queue)
    /\ UNCHANGED <<startVars, callVars, searchAhead>>
    /\ UNCHANGED <<config, locals, known, enqueued, pendingJobs, stateVars,
                   sinkVars, retryCount, totalScraped, parked, parsed,
                   inflightAtCap,
                   capInFlight, failedReqs>>

\* Failed attempts are explored for the runs that start from a single
\* search page (flaky), and there an attempt of request r may fail while the
\* retry counts of the other requests sum to at most MaxOtherRetries (its
\* own retries are bounded by the crawler).
RECURSIVE SumRetries(_)
SumRetries(S) ==
    IF S = {} THEN 0
    ELSE LET r == CHOOSE x \in S : TRUE
         IN  retryCount[r] + SumRetries(S \ {r})
FailuresLeft(r) == flaky /\ SumRetries(Req \ {r}) <= MaxOtherRetries

\* An attempt of request r ended with an error (thrown by the handler or by
\* the fetch): the request goes back to the queue while it has retries left,
\* and to failedRequestHandler otherwise.  Constrains pc, retryCount, queue.
RetryOrFailUncounted(r) ==
    /\ queue' = Append(queue, r)
    /\ pc' = [pc EXCEPT ![r] = "idle"]
    /\ UNCHANGED retryCount
RetryOrFail(r) ==
    IF retryCount[r] < maxRequestRetries
    THEN /\ retryCount' = [retryCount EXCEPT ![r] = @ + 1]
         /\ queue' = Append(queue, r)
         /\ pc' = [pc EXCEPT ![r] = "idle"]
    ELSE /\ pc' = [pc EXCEPT ![r] = "failed"]
         /\ UNCHANGED <<retryCount, queue>>

\* The fetch itself fails (network error, timeout, 5xx): no handler runs.
FetchError(r) ==
    /\ pc[r] = "fetch"
    /\ FailuresLeft(r)
    /\ RetryOrFail(r)
    /\ UNCHANGED <<startVars, callVars, searchAhead>>
    /\ UNCHANGED <<config, locals, known, enqueued, pendingJobs, stateVars,
                   sinkVars, totalScraped, parked, parsed, inflightAtCap,
                   capInFlight, failedReqs>>

\* ------------------------------------------------------------- pushResult

\* `if (totalScraped >= maxItems) return;` at the head of pushResult
pushResultNoGuard == FALSE
pushResultGuardOffByOne == totalScraped > maxItems
pushResultGuard == totalScraped >= maxItems

\* The output record: company fields default to null.
OutputRecord(data) == [id |-> data.id, detail |-> data.detail, company |-> data.company]

\* pushResult(data) up to its await: nothing when the budget is used up,
\* otherwise the record is handed to Actor.pushData and the caller waits.
pushResult(r, data) ==
    IF pushResultGuard
    THEN UNCHANGED <<pushes, sink, pushing>>
    ELSE /\ pushes' = [pushes EXCEPT ![data.id] = @ + 1]
         /\ sink' = sink \cup {OutputRecord(data)}
         /\ pushing' = [pushing EXCEPT ![r] = TRUE]

\* Actor.pushData resolved: `totalScraped++`, and pushResult returns.
PushReturn(r) ==
    /\ pushing[r]
    /\ pushing' = [pushing EXCEPT ![r] = FALSE]
    /\ totalScraped' = totalScraped + 1
    /\ inflightAtCap' = IF totalScraped' = maxItems
                        THEN Cardinality(InFlight) ELSE inflightAtCap
    /\ capInFlight' = IF totalScraped' = maxItems
                      THEN InFlight ELSE capInFlight
    /\ UNCHANGED <<startVars, callVars, searchAhead>>
    /\ UNCHANGED <<config, locals, queueVars, stateVars, pushes, sink,
                   retryCount, pc, parked, parsed, failedReqs>>

\* A handler whose last await resolved returns: the request is handled.
HandlerEnd(r) ==
    /\ pc[r] = "end"
    /\ ~pushing[r]
    /\ pc' = [pc EXCEPT ![r] = "idle"]
    /\ UNCHANGED <<startVars, callVars, searchAhead>>
    /\ UNCHANGED <<config, locals, queueVars, stateVars, sinkVars, retryCount,
                   totalScraped, parked, parsed, inflightAtCap,
                   capInFlight, failedReqs>>

\* ----------------------------------------------------------- handleSearch

\* `if (totalScraped >= maxItems)` on entry to handleSearch and at the top
\* of each iteration of its card loop
handleSearchGuardOffByOne == totalScraped > maxItems
handleSearchGuard == totalScraped >= maxItems

\* Index of the first card at or after i whose id is not in scrapedIds
\* (the loop passes over duplicates without awaiting); PageSize + 1 if none.
NextNewCardNoDedup(n, i) == IF i <= PageSize THEN i ELSE PageSize + 1
NextNewCard(n, i) ==
    LET new == {k \in i..PageSize : CardsOf(n)[k] \notin scrapedIds}
    IN  IF new = {} THEN PageSize + 1
        ELSE CHOOSE k \in new : \A m \in new : k <= m

\* The queue after `requestQueue.addRequest(..., { forefront: true })` of a
\* request that is new to it.
addRequestBack(q, r) == Append(q, r)
addRequestForefront(q, r) == <<r>> \o q

\* The card loop of handleSearch from index i up to its next await: the
\* first new card is marked seen and either dispatched as a JOB_DETAIL
\* request at the front of the queue or pushed; past the last card, or with
\* the budget used up, the handler goes to its final sleep.
SearchLoop(r, i) ==
    LET n == KeyOf(r)
        k == NextNewCard(n, i)
    IN  IF handleSearchGuard \/ k > PageSize
        THEN /\ pc' = [pc EXCEPT ![r] = "end"]
             /\ UNCHANGED <<idx, queueVars, scrapedIds, sinkVars>>
        ELSE LET id == CardsOf(n)[k] IN
             /\ scrapedIds' = scrapedIds \cup {id}
             /\ idx' = [idx EXCEPT ![r] = k + 1]
             /\ pc' = [pc EXCEPT ![r] = "s_loop"]
             /\ IF scrapeJobDetails
                THEN /\ IF DetailReq(id) \in known
                        THEN UNCHANGED <<queue, known, enqueued>>
                        ELSE /\ queue' =
                                  addRequestForefront(queue, DetailReq(id))
                             /\ known' = known \cup {DetailReq(id)}
                             /\ enqueued' =
                                  [enqueued EXCEPT ![DetailReq(id)] = @ + 1]
                     /\ UNCHANGED <<pendingJobs, sinkVars>>
                ELSE /\ pushResult(r, Card(id))
                     /\ UNCHANGED queueVars

\* `statusCode !== 200` (after the separate test for 429) discards the page.
SearchStatusAny(o) == o # "s429"
SearchStatusOk(o) == o = "ok"

\* handleSearch from its call to its first await.
HandleSearch(r, o) ==
    /\ TypeOf(r) = "S"
    /\ pc[r] = "fetch"
    /\ IF handleSearchGuard
       THEN /\ pc' = [pc EXCEPT ![r] = "idle"]
            /\ UNCHANGED <<idx, queueVars, scrapedIds, sinkVars>>
       ELSE IF o = "s429"
       THEN /\ pc' = [pc EXCEPT ![r] = "end"]
            /\ UNCHANGED <<idx, queueVars, scrapedIds, sinkVars>>
       ELSE IF ~SearchStatusOk(o)
       THEN /\ pc' = [pc EXCEPT ![r] = "idle"]
            /\ UNCHANGED <<idx, queueVars, scrapedIds, sinkVars>>
       ELSE SearchLoop(r, 1)
    /\ parsed' = IF ~handleSearchGuard /\ o # "s429" /\ SearchStatusOk(o)
                 THEN parsed \cup {KeyOf(r)} ELSE parsed
    /\ UNCHANGED <<startVars, callVars, searchAhead>>
    /\ UNCHANGED <<config, wasAlreadyPresent, todo, companyData, companyCache,
                   pendingCompanies, retryCount, totalScraped, parked,
                   inflightAtCap,
                   capInFlight, failedReqs>>

\* handleSearch resumes in its card loop after addRequest or pushResult.
HandleSearchLoop(r) ==
    /\ pc[r] = "s_loop"
    /\ ~pushing[r]
    /\ SearchLoop(r, idx[r])
    /\ UNCHANGED <<startVars, callVars, searchAhead>>
    /\ UNCHANGED <<config, wasAlreadyPresent, todo, companyData, companyCache,
                   pendingCompanies, retryCount, totalScraped, parked, parsed,
                   inflightAtCap,
                   capInFlight, failedReqs>>

\* -------------------------------------------------------- handleJobDetail

\* `if (totalScraped >= maxItems) return;` on entry to handleJobDetail
handleJobDetailNoGuard == FALSE
handleJobDetailGuard == totalScraped >= maxItems

\* The record handleJobDetail pushes on a cache hit: merged with the cached
\* company fields (Object.assign(merged, companyCache.get(slug))).
MergeCachedForgotten(merged, slug) == merged
MergeCached(merged, slug) ==
    AssignCompany(merged, MapGet(companyCache, slug))

\* `companyCache.has(slug)`: the company is resolved already.
CacheHitAlways(slug) == TRUE
CacheHit(slug) == MapHas(companyCache, slug)

\* `statusCode === 429 || statusCode === 999` at the head of handleJobDetail
DetailRateLimitedOnly429(o) == o = "s429"
DetailRateLimited(o) == RateLimited(o)

\* Neither `isLoginWall($, statusCode)` nor `statusCode !== 200`: the detail
\* page is parsed.
DetailStatusOkOrWall(o) == o \in {"ok", "wall"}
DetailStatusOk(o) == o = "ok"

\* `if (scrapeCompany && cardData.companyLinkedinUrl)` and `if (slug)`: the
\* job is to be joined with its company.
companyWantedAlways(url, slug) == url # NoUrl /\ slug # NoSlug
companyWanted(url, slug) == scrapeCompany /\ url # NoUrl /\ slug # NoSlug

\* handleJobDetail from its call to its first await.
\* The queue after `requestQueue.addRequest(..., { forefront: false })` of
\* a COMPANY request that is new to it.
addRequestCompanyForefront(q, r) == <<r>> \o q
addRequestNoForefront(q, r) == Append(q, r)

\* The SEARCH requests waiting in the queue; searchAhead[c] records them at
\* the moment COMPANY request c is added.
SearchWaiting ==
    {s \in Req : TypeOf(s) = "S" /\ \E i \in 1..Len(queue) : queue[i] = s}

HandleJobDetail(r, o) ==
    LET cardData == Card(KeyOf(r))
        merged == MergeDetail(cardData)
        slug == extractCompanySlug(cardData.companyLinkedinUrl)
        creq == CompanyReq(companyUniqueKey(slug, cardData.id))
    IN
    /\ TypeOf(r) = "D"
    /\ pc[r] = "fetch"
    /\ RateLimited(o) => FailuresLeft(r)
    /\ IF handleJobDetailGuard
       THEN /\ pc' = [pc EXCEPT ![r] = "idle"]
            /\ UNCHANGED <<wasAlreadyPresent, queueVars, sinkVars, parked, searchAhead>>
       ELSE IF DetailRateLimited(o)
       THEN /\ pc' = [pc EXCEPT ![r] = "backoff"]
            /\ UNCHANGED <<wasAlreadyPresent, queueVars, sinkVars, parked, searchAhead>>
       ELSE IF ~DetailStatusOk(o)
       THEN /\ pushResult(r, cardData)
            /\ pc' = [pc EXCEPT ![r] = "end"]
            /\ UNCHANGED <<wasAlreadyPresent, queueVars, parked, searchAhead>>
       ELSE IF companyWanted(cardData.companyLinkedinUrl, slug)
       THEN IF CacheHit(slug)
            THEN /\ pushResult(r, MergeCached(merged, slug))
                 /\ pc' = [pc EXCEPT ![r] = "end"]
                 /\ UNCHANGED <<wasAlreadyPresent, queueVars, parked, searchAhead>>
            ELSE /\ pc' = [pc EXCEPT ![r] = "d_added"]
                 /\ wasAlreadyPresent' =
                        [wasAlreadyPresent EXCEPT ![r] = creq \in known]
                 /\ IF creq \in known
                    THEN UNCHANGED <<queueVars, parked, searchAhead>>
                    ELSE /\ queue' = addRequestNoForefront(queue, creq)
                         /\ known' = known \cup {creq}
                         /\ enqueued' = [enqueued EXCEPT ![creq] = @ + 1]
                         /\ pendingJobs' =
                                [pendingJobs EXCEPT ![creq] = <<merged>>]
                         /\ parked' = parked \cup {cardData.id}
                         /\ searchAhead' =
                                [searchAhead EXCEPT ![creq] = SearchWaiting]
                 /\ UNCHANGED sinkVars
       ELSE /\ pushResult(r, merged)
            /\ pc' = [pc EXCEPT ![r] = "end"]
            /\ UNCHANGED <<wasAlreadyPresent, queueVars, parked, searchAhead>>
    /\ UNCHANGED <<startVars, callVars>>
    /\ UNCHANGED <<config, idx, todo, companyData, stateVars, retryCount,
                   totalScraped, parsed, inflightAtCap,
                   capInFlight, failedReqs>>

\* The pending list after the first dispatcher's
\* `pendingCompanies.set(slug, [])`.
InitOverflowWithPassenger(slug) ==
    MapSet(pendingCompanies, slug, pendingJobs[CompanyReq(slug)])
InitOverflow(slug) == MapSet(pendingCompanies, slug, <<>>)

\* The pending list after parking a job behind a company still in flight.
ParkJob(slug, merged) ==
    MapSet(pendingCompanies, slug,
           Append(IF MapHas(pendingCompanies, slug)
                  THEN pendingCompanies[slug] ELSE <<>>, merged))

\* handleJobDetail resumes after `await requestQueue.addRequest(...)`.
HandleJobDetailAdded(r) ==
    LET cardData == Card(KeyOf(r))
        merged == MergeDetail(cardData)
        slug == extractCompanySlug(cardData.companyLinkedinUrl)
    IN
    /\ pc[r] = "d_added"
    /\ pc' = [pc EXCEPT ![r] = "end"]
    /\ IF ~wasAlreadyPresent[r]
       THEN /\ pendingCompanies' = InitOverflow(slug)
            /\ UNCHANGED <<sinkVars, parked>>
       ELSE IF CacheHit(slug)
       THEN /\ pushResult(r, MergeCached(merged, slug))
            /\ UNCHANGED <<pendingCompanies, parked>>
       ELSE /\ pendingCompanies' = ParkJob(slug, merged)
            /\ parked' = parked \cup {cardData.id}
            /\ UNCHANGED sinkVars
    /\ UNCHANGED <<startVars, callVars, searchAhead>>
    /\ UNCHANGED <<config, locals, queueVars, scrapedIds, companyCache,
                   retryCount, totalScraped, parsed, inflightAtCap,
                   capInFlight, failedReqs>>

\* The backoff sleep of a rate-limited JOB_DETAIL or COMPANY attempt is
\* over and the handler throws: the crawler retries the request.
Throw(r) ==
    /\ pc[r] = "backoff"
    /\ RetryOrFail(r)
    /\ UNCHANGED <<startVars, callVars, searchAhead>>
    /\ UNCHANGED <<config, locals, known, enqueued, pendingJobs, stateVars,
                   sinkVars, totalScraped, parked, parsed, inflightAtCap,
                   capInFlight, failedReqs>>

\* ---------------------------------------------------------- handleCompany

\* The jobs parked behind slug (`pendingCompanies.get(slug) || []`).
Overflow(slug) ==
    IF MapHas(pendingCompanies, slug) THEN pendingCompanies[slug] ELSE <<>>

\* The record pushed for a waiting job: handleCompany (phases 1 and 2)
\* assigns the company data to it, failedRequestHandler (phase 3) pushes
\* the job as it is.
DrainRecord(job, cd, phase) ==
    IF phase = 3 THEN job ELSE AssignCompany(job, cd)

\* The push loops over the waiting jobs, up to the next await.  Phase 1 is
\* the loop over the request's own pendingJobs, phase 2 the loop over the
\* overflow list read when phase 1 is done, phase 3 the single loop of
\* failedRequestHandler.  When the last loop is done the pending entry is
\* deleted and the handler goes to its end.
Drain(r, cd, phase, list) ==
    LET slug == SlugOfKey(KeyOf(r))
        toOverflow == phase = 1 /\ list = <<>>
        ph == IF toOverflow THEN 2 ELSE phase
        l == IF toOverflow THEN Overflow(slug) ELSE list
    IN  IF l # <<>>
        THEN /\ pushResult(r, DrainRecord(Head(l), cd, ph))
             /\ todo' = [todo EXCEPT ![r] = Tail(l)]
             /\ idx' = [idx EXCEPT ![r] = ph]
             /\ pc' = [pc EXCEPT ![r] = "drain"]
             /\ UNCHANGED pendingCompanies
        ELSE /\ pendingCompanies' = MapDelete(pendingCompanies, slug)
             /\ todo' = [todo EXCEPT ![r] = <<>>]
             /\ idx' = [idx EXCEPT ![r] = ph]
             /\ pc' = [pc EXCEPT ![r] = "end"]
             /\ UNCHANGED sinkVars

\* The empty tombstone `{}` and what handleCompany decides for one result:
\* retry with a backoff sleep, retry at once, resolve to the parsed data,
\* or resolve to the tombstone.
Tombstone == Null
CompanyDecisionNoCap(o, retries) ==
    IF RateLimited(o) THEN "backoff"
    ELSE IF o = "ok" THEN "resolve"
    ELSE IF o = "wall" THEN "throw"
    ELSE "tombstone"
CompanyDecision(o, retries) ==
    IF RateLimited(o)
    THEN IF retries < CompanyRetryLimit THEN "backoff" ELSE "tombstone"
    ELSE IF o = "ok" THEN "resolve"
    ELSE IF o = "wall" /\ retries < CompanyRetryLimit THEN "throw"
    ELSE "tombstone"

\* handleCompany from its call to its first await.
HandleCompany(r, o) ==
    LET slug == SlugOfKey(KeyOf(r))
        d == CompanyDecision(o, retryCount[r])
        cd == IF d = "resolve" THEN parseCompanyPage(slug) ELSE Tombstone
    IN
    /\ TypeOf(r) = "C"
    /\ pc[r] = "fetch"
    /\ d \in {"backoff", "throw"} => FailuresLeft(r)
    /\ IF d = "backoff"
       THEN /\ pc' = [pc EXCEPT ![r] = "backoff"]
            /\ UNCHANGED <<idx, todo, companyData, queue, retryCount,
                           stateVars, sinkVars>>
       ELSE IF d = "throw"
       THEN /\ RetryOrFail(r)
            /\ UNCHANGED <<idx, todo, companyData, stateVars, sinkVars>>
       ELSE /\ companyCache' = MapSet(companyCache, slug, cd)
            /\ companyData' = [companyData EXCEPT ![r] = cd]
            /\ Drain(r, cd, 1, pendingJobs[r])
            /\ UNCHANGED <<queue, retryCount, scrapedIds>>
    /\ UNCHANGED <<startVars, callVars, searchAhead>>
    /\ UNCHANGED <<config, wasAlreadyPresent, known, enqueued, pendingJobs,
                   totalScraped, parked, parsed, inflightAtCap,
                   capInFlight, failedReqs>>

\* handleCompany or failedRequestHandler resumes in a push loop.
HandleDrain(r) ==
    /\ pc[r] = "drain"
    /\ ~pushing[r]
    /\ Drain(r, companyData[r], idx[r], todo[r])
    /\ UNCHANGED <<startVars, callVars, searchAhead>>
    /\ UNCHANGED <<config, wasAlreadyPresent, companyData, queueVars,
                   scrapedIds, companyCache, retryCount, totalScraped, parked,
                   parsed,
                   inflightAtCap,
                   capInFlight, failedReqs>>

\* --------------------------------------------------- failedRequestHandler

\* `request.userData.type === 'JOB_DETAIL' && request.userData.cardData`:
\* every JOB_DETAIL request carries the card it was dispatched for.
hasCardDataNever(r) == FALSE
hasCardData(r) == TypeOf(r) = "D"

\* failedRequestHandler from its call to its first await: a JOB_DETAIL
\* request pushes its card data; a COMPANY request sets the tombstone and
\* pushes its own pendingJobs and the overflow list, without company data.
FailedRequestHandler(r) ==
    LET slug == SlugOfKey(KeyOf(r)) IN
    /\ pc[r] = "failed"
    /\ failedReqs' = failedReqs \cup {r}
    /\ IF hasCardData(r)
       THEN /\ pushResult(r, Card(KeyOf(r)))
            /\ pc' = [pc EXCEPT ![r] = "end"]
            /\ UNCHANGED <<idx, todo, companyData, stateVars>>
       ELSE IF TypeOf(r) = "C"
       THEN /\ companyCache' = MapSet(companyCache, slug, Tombstone)
            /\ companyData' = [companyData EXCEPT ![r] = Tombstone]
            /\ Drain(r, Tombstone, 3, pendingJobs[r] \o Overflow(slug))
            /\ UNCHANGED scrapedIds
       ELSE /\ pc' = [pc EXCEPT ![r] = "idle"]
            /\ UNCHANGED <<idx, todo, companyData, stateVars, sinkVars>>
    /\ UNCHANGED <<startVars, callVars, searchAhead>>
    /\ UNCHANGED <<config, wasAlreadyPresent, queueVars, retryCount,
                   totalScraped, parked, parsed, inflightAtCap,
                   capInFlight>>

\* ------------------------------------------------------------------- run

Next ==
    \/ Dequeue
    \/ \E r \in Req : FetchError(r)
    \/ \E r \in Req, o \in Outcomes : HandleSearch(r, o)
    \/ \E r \in Req : HandleSearchLoop(r)
    \/ \E r \in Req, o \in Outcomes : HandleJobDetail(r, o)
    \/ \E r \in Req : HandleJobDetailAdded(r)
    \/ \E r \in Req, o \in Outcomes : HandleCompany(r, o)
    \/ \E r \in Req : HandleDrain(r)
    \/ \E r \in Req : Throw(r)
    \/ \E r \in Req : FailedRequestHandler(r)
    \/ \E r \in Req : PushReturn(r)
    \/ \E r \in Req : HandlerEnd(r)

Spec == Init /\ [][Next]_vars

\* crawler.run() has returned: the queue is empty and no request in flight.
Done == queue = <<>> /\ InFlight = {}

\* The serialized decision step the design asks for: a completed fetch is
\* classified and dispatched only while no other request's handler is
\* between its first step and its return.
Busy(r) == pc[r] \in {"s_loop", "d_added", "backoff", "drain", "end"} \/ pushing[r]
SerialStep ==
    \A r \in Req :
        (pc[r] \in {"fetch", "failed"} /\ pc'[r] # pc[r])
        => \A r2 \in Req \ {r} : ~Busy(r2)
\* The event loop runs whatever is ready: a free worker takes the next
\* request, a fetch completes, an await resolves and its handler resumes.
\* Termination is checked for the runs in which attempts fail.
LiveInit == Init /\ flaky
LiveSpec == LiveInit /\ [][Next]_vars /\ WF_vars(Next)

\* Runs in which attempts fail while several search pages are waiting:
\* every page of the search is in the initial queue, and the attempts that
\* fail or are rate-limited are those of the first job's JOB_DETAIL request.
PriorityInit ==
    /\ maxItems = NumJobs + 1
    /\ scrapeJobDetails = TRUE
    /\ scrapeCompany = TRUE
    /\ companyUrl = [j \in Jobs |-> j]
    /\ flaky = TRUE
    /\ numPages = NumSearch
    /\ queue = [n \in 1..numPages |-> SearchReq(n)]
    /\ known = {SearchReq(n) : n \in 1..numPages}
    /\ enqueued = [r \in Req |-> IF r \in known THEN 1 ELSE 0]
    /\ retryCount = [r \in Req |-> 0]
    /\ pc = [r \in Req |-> "idle"]
    /\ pushing = [r \in Req |-> FALSE]
    /\ idx = [r \in Req |-> 0]
    /\ wasAlreadyPresent = [r \in Req |-> FALSE]
    /\ todo = [r \in Req |-> <<>>]
    /\ companyData = [r \in Req |-> Null]
    /\ pendingJobs = [r \in Req |-> <<>>]
    /\ scrapedIds = {}
    /\ totalScraped = 0
    /\ companyCache = EmptyMap
    /\ pendingCompanies = EmptyMap
    /\ pushes = [j \in Jobs |-> 0]
    /\ sink = {}
    /\ parked = {}
    /\ searchAhead = [r \in Req |-> {}]
    /\ parsed = {}
    /\ inflightAtCap = 0
    /\ capInFlight = {}
    /\ failedReqs = {}
    /\ StartupOver
    /\ NoCall
PriorityStep ==
    \A r \in Req \ {DetailReq(1)} :
        retryCount'[r] = retryCount[r] /\ pc'[r] # "backoff"
PriorityNext == Next /\ PriorityStep
PrioritySpec == PriorityInit /\ [][PriorityNext]_vars

SerialNext == Next /\ SerialStep
SerialSpec == Init /\ [][SerialNext]_vars

\* ------------------------------------------- functions called on their own

\* The crawl state of the specifications in which no crawl takes place.
CrawlOff ==
    /\ maxItems = 1
    /\ scrapeJobDetails = FALSE
    /\ scrapeCompany = FALSE
    /\ companyUrl = [j \in Jobs |-> NoUrl]
    /\ flaky = FALSE
    /\ numPages = 0
    /\ queue = <<>>
    /\ known = {}
    /\ enqueued = [r \in Req |-> 0]
    /\ retryCount = [r \in Req |-> 0]
    /\ pc = [r \in Req |-> "idle"]
    /\ pushing = [r \in Req |-> FALSE]
    /\ idx = [r \in Req |-> 0]
    /\ wasAlreadyPresent = [r \in Req |-> FALSE]
    /\ todo = [r \in Req |-> <<>>]
    /\ companyData = [r \in Req |-> Null]
    /\ pendingJobs = [r \in Req |-> <<>>]
    /\ scrapedIds = {}
    /\ totalScraped = 0
    /\ companyCache = EmptyMap
    /\ pendingCompanies = EmptyMap
    /\ pushes = [j \in Jobs |-> 0]
    /\ sink = {}
    /\ parked = {}
    /\ searchAhead = [r \in Req |-> {}]
    /\ parsed = {}
    /\ inflightAtCap = 0
    /\ capInFlight = {}
    /\ failedReqs = {}

\* A URL string: whether `new URL()` parses it, which path it contains
\* ("api" for /jobs-guest/jobs/api/seeMoreJobPostings/, "search" for the
\* search page, "none" otherwise), whether it is spelled as URL.toString()
\* spells it, and its query parameters as a list of <<name, value>>.
MaxParams == 2
ParamChoices ==
    {<<"keywords", "dev">>, <<"keywords", "qa">>,
     <<"start", "0">>, <<"start", "50">>}
Queries == UNION {[1..n -> ParamChoices] : n \in 0..MaxParams}
UrlInputs ==
    {u \in [ok : BOOLEAN, path : {"search", "api", "none"}, norm : BOOLEAN,
            query : Queries] : u.norm => u.ok}

\* URLSearchParams: has, get, set (the first pair of the name gets the
\* value and the other pairs of the name are removed; a new name goes last).
HasParam(q, k) == \E i \in 1..Len(q) : q[i][1] = k
FirstOf(q, k) ==
    CHOOSE i \in 1..Len(q) : q[i][1] = k /\ \A m \in 1..(i - 1) : q[m][1] # k
GetParam(q, k) == IF HasParam(q, k) THEN q[FirstOf(q, k)][2] ELSE ""
OtherNames(q, k) == SelectSeq(q, LAMBDA p : p[1] # k)
SetParam(q, k, v) ==
    IF HasParam(q, k)
    THEN SubSeq(q, 1, FirstOf(q, k) - 1) \o <<<<k, v>>>>
           \o OtherNames(SubSeq(q, FirstOf(q, k) + 1, Len(q)), k)
    ELSE Append(q, <<k, v>>)

\* `for (const [key, value] of params.entries()) apiUrl.searchParams.set(...)`
RECURSIVE CopyParams(_, _)
CopyParams(dst, src) ==
    IF src = <<>> THEN dst
    ELSE CopyParams(SetParam(dst, Head(src)[1], Head(src)[2]), Tail(src))

\* toGuestApiUrl: a string that contains the API path is returned as it is,
\* an unparseable string too; otherwise the parameters are copied onto the
\* API URL and start is set to 0 if it is absent.
toGuestApiUrlAlwaysConvert(url) ==
    IF ~url.ok THEN url
    ELSE LET copied == CopyParams(<<>>, url.query)
         IN  [ok |-> TRUE, path |-> "api", norm |-> TRUE,
              query |-> IF HasParam(copied, "start") THEN copied
                        ELSE SetParam(copied, "start", "0")]
toGuestApiUrl(url) ==
    IF url.path = "api" THEN url
    ELSE IF ~url.ok THEN url
    ELSE LET copied == CopyParams(<<>>, url.query)
         IN  [ok |-> TRUE, path |-> "api", norm |-> TRUE,
              query |-> IF HasParam(copied, "start") THEN copied
                        ELSE SetParam(copied, "start", "0")]

\* setStartParam: the URL with its start parameter set, spelled by
\* URL.toString(); an unparseable string is returned as it is.
setStartParamAppend(url, start) ==
    IF ~url.ok THEN url
    ELSE [url EXCEPT !.query = Append(@, <<"start", ToString(start)>>),
                     !.norm = TRUE]
setStartParam(url, start) ==
    IF ~url.ok THEN url
    ELSE [url EXCEPT !.query = SetParam(@, "start", ToString(start)),
                     !.norm = TRUE]

\* parseInt(s, 10) for the strings that occur as parameter values: the
\* number whose decimal spelling s is, NaN for a string with no leading
\* digit.  Offsets are the values of start tried.
MaxOffset == 60
Offsets == 0..MaxOffset
NaN == -1
parseInt(s) ==
    IF \E n \in Offsets : ToString(n) = s
    THEN CHOOSE n \in Offsets : ToString(n) = s
    ELSE NaN

\* getStartParam: the number in the first start parameter, 0 when there is
\* none or its value is empty, 0 for an unparseable string.
getStartParam(url) ==
    IF ~url.ok THEN 0
    ELSE parseInt(IF GetParam(url.query, "start") = "" THEN "0"
                  ELSE GetParam(url.query, "start"))

\* toGuestApiUrl applied to an input and then to its own result.
UrlInit == CrawlOff /\ StartupOver /\ arg \in UrlInputs /\ res = <<>>
CallToGuestApiUrl ==
    /\ Len(res) < 2
    /\ res' = Append(res, toGuestApiUrl(IF res = <<>> THEN arg
                                        ELSE res[Len(res)]))
    /\ UNCHANGED <<crawlVars, startVars, arg>>
UrlNext == CallToGuestApiUrl
UrlSpec == UrlInit /\ [][UrlNext]_vars

\* setStartParam applied to a URL and an offset, then getStartParam applied
\* to the result.
StartParamInit ==
    /\ CrawlOff /\ StartupOver
    /\ arg \in [url : UrlInputs, start : Offsets]
    /\ res = <<>>
CallSetStartParam ==
    /\ res = <<>>
    /\ res' = <<setStartParam(arg.url, arg.start)>>
    /\ UNCHANGED <<crawlVars, startVars, arg>>
CallGetStartParam ==
    /\ Len(res) = 1
    /\ res' = Append(res, getStartParam(res[1]))
    /\ UNCHANGED <<crawlVars, startVars, arg>>
StartParamNext == CallSetStartParam \/ CallGetStartParam
StartParamSpec == StartParamInit /\ [][StartParamNext]_vars

\* randomDelay(min, max): the values Math.floor(Math.random() * (max - min
\* + 1)) + min can take are min..max; those tried are min, max and the
\* values JitterStep apart in between.
JitterStep == 500
randomDelay(min, max) ==
    {v \in min..max : (v - min) % JitterStep = 0 \/ v = max}

\* `(request.retryCount || 0) * 3000 + randomDelay(2000, 5000)` and
\* `retryCount * 2000 + randomDelay(1000, 3000)`, for one jitter draw.
jobDetailBackoffSlow(n, jitter) == n * 1000 + jitter
jobDetailBackoff(n, jitter) == n * 3000 + jitter
companyBackoff(n, jitter) == n * 2000 + jitter
Jitter(type) ==
    IF type = "JOB_DETAIL" THEN randomDelay(2000, 5000)
    ELSE randomDelay(1000, 3000)
Backoff(type, n, jitter) ==
    IF type = "JOB_DETAIL" THEN jobDetailBackoff(n, jitter)
    ELSE companyBackoff(n, jitter)

\* The retry counts at which a rate-limited attempt sleeps and is followed
\* by another attempt: JOB_DETAIL while the crawler retries, COMPANY while
\* `retryCount < 4` holds for the next attempt too.
BackoffInputs ==
    {[type |-> "JOB_DETAIL", retryCount |-> n] :
        n \in 0..(maxRequestRetries - 1)}
    \cup {[type |-> "COMPANY", retryCount |-> n] :
            n \in 0..(CompanyRetryLimit - 2)}

\* Two rate-limited attempts in a row of one request: the delay at
\* retryCount n, then the delay at n + 1, each with a jitter draw of its own.
BackoffInit == CrawlOff /\ StartupOver /\ arg \in BackoffInputs /\ res = <<>>
CallBackoff ==
    /\ Len(res) < 2
    /\ \E jitter \in Jitter(arg.type) :
         res' = Append(res, Backoff(arg.type, arg.retryCount + Len(res),
                                    jitter))
    /\ UNCHANGED <<crawlVars, startVars, arg>>
BackoffNext == CallBackoff
BackoffSpec == BackoffInit /\ [][BackoffNext]_vars

\* A fetched page as isLoginWall sees it: the status code, the selectors
\* and substrings it looks for that the page has, and the length of its
\* HTML.
ShortPageLimit == 5000
ContentMarkers ==
    {"div.show-more-less-html__markup", "div.description__text",
     "li.description__job-criteria-item", "section.core-section-container",
     "dt"}
AuthMarkers == {"authwall", "sign-in-modal", "uas-login"}
LoginMarkers == AuthMarkers \cup {"/login"}
StatusChoices == {200, 401, 403, 404}
PageInputs ==
    [statusCode : StatusChoices,
     markers : SUBSET (ContentMarkers \cup LoginMarkers),
     length : {ShortPageLimit - 1, ShortPageLimit}]

\* isLoginWall($, statusCode)
isLoginWallMarkersFirst(page) ==
    \/ page.statusCode \in {401, 403}
    \/ page.markers \cap AuthMarkers # {}
    \/ /\ page.markers \cap ContentMarkers = {}
       /\ page.length < ShortPageLimit /\ "/login" \in page.markers
isLoginWall(page) ==
    IF page.statusCode = 401 \/ page.statusCode = 403 THEN TRUE
    ELSE IF page.markers \cap ContentMarkers # {} THEN FALSE
    ELSE \/ page.markers \cap AuthMarkers # {}
         \/ page.length < ShortPageLimit /\ "/login" \in page.markers

LoginWallInit == CrawlOff /\ StartupOver /\ arg \in PageInputs /\ res = <<>>
CallIsLoginWall ==
    /\ res = <<>>
    /\ res' = <<isLoginWall(arg)>>
    /\ UNCHANGED <<crawlVars, startVars, arg>>
LoginWallNext == CallIsLoginWall
LoginWallSpec == LoginWallInit /\ [][LoginWallNext]_vars

\* ---------------------------------------------------------------- startup

\* COUNTRY_CITIES, for two of its countries.
COUNTRY_CITIES ==
    [singapore |-> <<"Singapore">>,
     uae |-> <<"Dubai", "Abu Dhabi", "Sharjah", "Ajman">>]

\* `COUNTRY_CITIES[targetCountry]` is the city list for a country of the
\* catalog and undefined for another name, except that for a name every
\* object inherits ("constructor") it is a value that is truthy and cannot
\* be iterated.
InheritedNames == {"constructor"}
HasCities(country) ==
    country \in DOMAIN COUNTRY_CITIES \/ country \in InheritedNames
Iterable(country) == country \in DOMAIN COUNTRY_CITIES
CitiesOf(country) ==
    IF country \in DOMAIN COUNTRY_CITIES THEN COUNTRY_CITIES[country]
    ELSE <<>>

\* Entries of startUrls: a string or an object with a url property, the URL
\* possibly missing or empty (hasUrl false).
SearchPageUrl ==
    [ok |-> TRUE, path |-> "search", norm |-> FALSE,
     query |-> <<<<"keywords", "dev">>, <<"location", "Berlin">>>>]
SearchPageUrlWithStart ==
    [ok |-> TRUE, path |-> "search", norm |-> TRUE,
     query |-> <<<<"keywords", "qa">>, <<"start", "50">>,
                 <<"f_E", "2">>>>]
ApiUrl ==
    [ok |-> TRUE, path |-> "api", norm |-> TRUE,
     query |-> <<<<"keywords", "dev">>>>]
MalformedUrl ==
    [ok |-> FALSE, path |-> "none", norm |-> FALSE, query |-> <<>>]
EntryChoices ==
    {[isString |-> TRUE, hasUrl |-> TRUE, url |-> SearchPageUrl],
     [isString |-> FALSE, hasUrl |-> TRUE, url |-> SearchPageUrlWithStart],
     [isString |-> TRUE, hasUrl |-> TRUE, url |-> ApiUrl],
     [isString |-> TRUE, hasUrl |-> TRUE, url |-> MalformedUrl],
     [isString |-> FALSE, hasUrl |-> FALSE, url |-> MalformedUrl],
     [isString |-> TRUE, hasUrl |-> FALSE, url |-> MalformedUrl]}

\* The Actor input.
MaxStartUrls == 2
MaxKeywords == 1
MaxPages == 3
KeywordChoices == {"dev", "qa"}
Inputs ==
    [startUrls : UNION {[1..n -> EntryChoices] : n \in 0..MaxStartUrls},
     searchKeywords : UNION {[1..n -> KeywordChoices] : n \in 0..MaxKeywords},
     searchLocation : {""},
     maxItems : {1, 25, 26, 25 * MaxPages},
     splitSearchByLocation : BOOLEAN,
     targetCountry : {"", "singapore", "uae", "atlantis", "constructor"},
     datePosted : {"", "r86400"}]

\* `startUrls.some(u => u.url || u)`: an entry counts when its url is a
\* non-empty string or, failing that, when the entry itself is truthy,
\* which every object is.
EntryTruthy(e) == e.hasUrl \/ ~e.isString
hasStartUrls ==
    /\ Len(input.startUrls) > 0
    /\ \E i \in 1..Len(input.startUrls) : EntryTruthy(input.startUrls[i])
hasKeywords == Len(input.searchKeywords) > 0

\* `splitSearchByLocation && targetCountry && COUNTRY_CITIES[targetCountry]`
splitByLocation ==
    /\ input.splitSearchByLocation
    /\ input.targetCountry # ""
    /\ HasCities(input.targetCountry)

\* `Math.ceil(maxItems / 25)`
pagesNeededFloor(m) == m \div 25
pagesNeeded(m) == IF m % 25 = 0 THEN m \div 25 ELSE (m \div 25) + 1

\* The URLs enqueueSearchPages passes to addRequest for a base URL.
SearchPageUrls(baseApiUrl) ==
    [p \in 1..pagesNeeded(input.maxItems) |->
        setStartParam(baseApiUrl, (p - 1) * 25)]

\* requestQueue.addRequest: a request whose uniqueKey the queue has is not
\* added again.
addRequest(q, request) ==
    IF \E i \in 1..Len(q) : q[i].uniqueKey = request.uniqueKey THEN q
    ELSE Append(q, request)

\* enqueueSearchPages(baseApiUrl, label), on queue q.
RECURSIVE AddPages(_, _, _)
AddPages(q, urls, label) ==
    IF urls = <<>> THEN q
    ELSE AddPages(addRequest(q, [url |-> Head(urls), uniqueKey |-> Head(urls),
                                 type |-> "SEARCH", label |-> label]),
                  Tail(urls), label)
enqueueSearchPages(q, baseApiUrl, label) ==
    AddPages(q, SearchPageUrls(baseApiUrl), label)

\* A sequence of enqueueSearchPages calls, each given by its base URL, its
\* label and the city of its shard ("" on the single-location path).
RECURSIVE EnqueueAll(_, _)
EnqueueAll(q, calls) ==
    IF calls = <<>> THEN q
    ELSE EnqueueAll(enqueueSearchPages(q, Head(calls).baseApiUrl,
                                       Head(calls).label),
                    Tail(calls))
CallRecord(c) ==
    [baseApiUrl |-> c.baseApiUrl, label |-> c.label, city |-> c.city,
     urls |-> SearchPageUrls(c.baseApiUrl)]

\* buildSearchUrl(keywords, location, start, extraParams)
buildSearchUrl(keywords, location, start, extraParams) ==
    [ok |-> TRUE, path |-> "api", norm |-> TRUE,
     query |-> CopyParams(
        <<<<"keywords", keywords>>, <<"location", location>>,
          <<"trk", "public_jobs_jobs-search-bar_search-submit">>,
          <<"position", "1">>, <<"pageNum", "0">>,
          <<"start", ToString(start)>>>>, extraParams)]

\* The extraParams of a start URL on the sharding path: its parameters
\* other than the search's own, and f_TPR if datePosted is given.
OwnNames == {"keywords", "location", "start", "position", "pageNum", "trk"}
ExtraParamsOf(q) ==
    LET extra == CopyParams(<<>>, SelectSeq(q, LAMBDA p : p[1] \notin OwnNames))
    IN  IF input.datePosted # "" THEN SetParam(extra, "f_TPR", input.datePosted)
        ELSE extra

\* An uncaught exception of the top-level code ends the run.
Fatal ==
    /\ startPc' = "fatal"
    /\ UNCHANGED <<entryIdx, requestQueue, enqueueCalls>>

\* The calls of one iteration are made; addRequest takes a request whose URL
\* does not parse or rejects it with an exception, as the queue decides.
Enqueue(calls) ==
    \E rejects \in BOOLEAN :
        IF rejects /\ \E i \in 1..Len(calls) : ~calls[i].baseApiUrl.ok
        THEN Fatal
        ELSE /\ requestQueue' = EnqueueAll(requestQueue, calls)
             /\ enqueueCalls' =
                  enqueueCalls \o [i \in 1..Len(calls) |-> CallRecord(calls[i])]
             /\ entryIdx' = entryIdx + 1
             /\ UNCHANGED startPc

StartInit ==
    /\ CrawlOff
    /\ NoCall
    /\ input \in Inputs
    /\ startPc = "validate"
    /\ entryIdx = 0
    /\ requestQueue = <<>>
    /\ enqueueCalls = <<>>
    /\ paths = {}

\* The validation: `if (!hasStartUrls && !hasKeywords) throw`.
Validate ==
    /\ startPc = "validate"
    /\ IF ~hasStartUrls /\ ~hasKeywords
       THEN Fatal
       ELSE /\ startPc' = IF hasStartUrls THEN "startUrls" ELSE "keywords"
            /\ entryIdx' = 1
            /\ UNCHANGED <<requestQueue, enqueueCalls>>
    /\ UNCHANGED <<crawlVars, callVars, input, paths>>

\* One iteration of `for (const entry of startUrls)`.
StartUrlEntry ==
    /\ startPc = "startUrls"
    /\ entryIdx <= Len(input.startUrls)
    /\ LET entry == input.startUrls[entryIdx]
           apiUrl == toGuestApiUrl(entry.url)
           cities == CitiesOf(input.targetCountry)
           keywords == GetParam(apiUrl.query, "keywords")
           extraParams == ExtraParamsOf(apiUrl.query)
       IN  IF ~entry.hasUrl
           THEN /\ entryIdx' = entryIdx + 1
                /\ UNCHANGED <<startPc, requestQueue, enqueueCalls, paths>>
           ELSE IF splitByLocation
           THEN /\ paths' = paths \cup {"shard"}
                /\ IF ~apiUrl.ok \/ ~Iterable(input.targetCountry)
                   THEN Fatal
                   ELSE Enqueue([c \in 1..Len(cities) |->
                           [baseApiUrl |-> buildSearchUrl(keywords, cities[c],
                                                          0, extraParams),
                            label |-> cities[c], city |-> cities[c]]])
           ELSE /\ paths' = paths \cup {"single"}
                /\ IF input.datePosted # ""
                   THEN IF ~apiUrl.ok
                        THEN Fatal
                        ELSE Enqueue(<<[baseApiUrl |->
                                [apiUrl EXCEPT
                                   !.query = SetParam(@, "f_TPR",
                                                      input.datePosted),
                                   !.norm = TRUE],
                              label |-> "", city |-> ""]>>)
                   ELSE Enqueue(<<[baseApiUrl |-> apiUrl, label |-> "",
                                   city |-> ""]>>)
    /\ UNCHANGED <<crawlVars, callVars, input>>

\* One iteration of `for (const keyword of searchKeywords)`.
KeywordEntry ==
    /\ startPc = "keywords"
    /\ entryIdx <= Len(input.searchKeywords)
    /\ LET keyword == input.searchKeywords[entryIdx]
           cities == CitiesOf(input.targetCountry)
           extraParams == IF input.datePosted # ""
                          THEN <<<<"f_TPR", input.datePosted>>>> ELSE <<>>
       IN  IF splitByLocation
           THEN /\ paths' = paths \cup {"shard"}
                /\ IF ~Iterable(input.targetCountry)
                   THEN Fatal
                   ELSE Enqueue([c \in 1..Len(cities) |->
                           [baseApiUrl |-> buildSearchUrl(keyword, cities[c],
                                                          0, extraParams),
                            label |-> keyword \o " - " \o cities[c],
                            city |-> cities[c]]])
           ELSE /\ paths' = paths \cup {"single"}
                /\ Enqueue(<<[baseApiUrl |->
                                 buildSearchUrl(keyword, input.searchLocation,
                                                0, extraParams),
                              label |-> keyword, city |-> ""]>>)
    /\ UNCHANGED <<crawlVars, callVars, input>>

\* The loop is over: the crawler is created and run on the queue.
CrawlerRun ==
    /\ \/ startPc = "startUrls" /\ entryIdx > Len(input.startUrls)
       \/ startPc = "keywords" /\ entryIdx > Len(input.searchKeywords)
    /\ startPc' = "crawl"
    /\ UNCHANGED <<crawlVars, callVars, input, entryIdx, requestQueue,
                   enqueueCalls, paths>>

StartNext == Validate \/ StartUrlEntry \/ KeywordEntry \/ CrawlerRun
StartSpec == StartInit /\ [][StartNext]_vars

\* ---------------------------------------------------------------- claims

RECURSIVE SumOf(_, _)
SumOf(f, S) ==
    IF S = {} THEN 0
    ELSE LET x == CHOOSE y \in S : TRUE
         IN  f[x] + SumOf(f, S \ {x})

\* Records handed to the sink (Actor.pushData calls) so far.
NumPushed == SumOf(pushes, Jobs)
\* COMPANY requests added to the queue for slug s so far.
CompanyRequests(s) ==
    SumOf(enqueued, {CompanyReq(k) : k \in {x \in CompanyKeys : SlugOfKey(x) = s}})
JobsOf(s) == {j \in Jobs : extractCompanySlug(companyUrl[j]) = s}
\* Records of jobs that went through the company join of slug s.
Joined(s) ==
    {rec \in sink : rec.detail /\ extractCompanySlug(companyUrl[rec.id]) = s}
\* Search pages whose cards were parsed and contain job id.
ParsedWith(id) == {n \in parsed : \E i \in 1..PageSize : CardsOf(n)[i] = id}
\* JOB_DETAIL dispatches and direct pushes made by handleSearch for job id.
PathsTaken(id) ==
    IF scrapeJobDetails THEN enqueued[DetailReq(id)] ELSE pushes[id]

\* C1: for every company slug at most one COMPANY request is ever added to
\* the queue, and exactly one as soon as a job is parked for that slug,
\* however the JOB_DETAIL handlers of the jobs sharing it interleave;
\* retries of the request add none.
C1_OneCompanyRequestPerSlug ==
    \A s \in Slugs :
        /\ CompanyRequests(s) <= 1
        /\ (parked \cap JobsOf(s) # {}) => CompanyRequests(s) = 1

\* C1 witness: two JOB_DETAIL handlers of jobs sharing a slug are both
\* waiting on their addRequest, and one COMPANY request was enqueued.
C1_Witness ==
    \E s \in Slugs : \E i, j \in JobsOf(s) :
        /\ i # j
        /\ pc[DetailReq(i)] = "d_added" /\ pc[DetailReq(j)] = "d_added"
        /\ CompanyRequests(s) = 1

\* C2: when the run is over and the budget was never used up, every job
\* that was parked for a company (passenger or pending-list entry) has been
\* pushed.
C2_NoLostJoins ==
    (Done /\ totalScraped < maxItems) => \A j \in parked : pushes[j] >= 1

\* C3: at every point of a run the number of records handed to the sink is
\* at most maxItems.
C3_CapEnforced == NumPushed <= maxItems

\* C4: once totalScraped has reached maxItems, the number of pushed records
\* is at most maxItems plus the number of requests that were in flight at
\* the moment it reached maxItems.
C4_BudgetRespect ==
    totalScraped >= maxItems => NumPushed <= maxItems + inflightAtCap

\* C4 witness: a finished run that pushed more records than maxItems.
C4_Witness == Done /\ NumPushed > maxItems

\* C5: once totalScraped has reached maxItems, no handler adds a request
\* to the queue and no handler starts the backoff that sends its request
\* back for another attempt.
C5_NoDispatchAfterCap ==
    [][totalScraped >= maxItems =>
          /\ enqueued' = enqueued
          /\ \A r \in Req : pc'[r] = "backoff" => pc[r] = "backoff"]_vars

\* C6 (as claimed): when the run is over, a job id whose card was in two
\* parsed SEARCH results had exactly one JOB_DETAIL dispatch or direct push.
C6_ExactlyOnePath ==
    Done => \A id \in Jobs :
                Cardinality(ParsedWith(id)) >= 2 => PathsTaken(id) = 1

\* C6 (amended): a job id never has more than one JOB_DETAIL dispatch or
\* direct push, and has exactly one if and only if handleSearch marked it
\* seen.
C6_Dedup ==
    \A id \in Jobs :
        /\ PathsTaken(id) <= 1
        /\ id \in scrapedIds <=> PathsTaken(id) = 1

\* C6 witness: the card of a job was in two parsed SEARCH results and the
\* job was dispatched or pushed once.
C6_Witness ==
    \E id \in Jobs : Cardinality(ParsedWith(id)) >= 2 /\ PathsTaken(id) = 1

C8_NotBeforeCompany ==
    scrapeCompany =>
        \A s \in Slugs : Joined(s) # {} => MapHas(companyCache, s)

\* C8 witness: such a job was pushed by the drain of a tombstoned company.
C8_Witness ==
    /\ scrapeCompany
    /\ \E s \in Slugs : /\ Joined(s) # {}
                        /\ MapHas(companyCache, s)
                        /\ companyCache[s] = Tombstone

\* C9: with scrapeCompany enabled, all records pushed for the jobs that
\* went through the join of one slug carry the same company fields, the
\* ones companyCache holds for the slug.
C9_SameCompanyFields ==
    scrapeCompany =>
        \A s \in Slugs : \A rec \in Joined(s) :
            rec.company = MapGet(companyCache, s)

\* C9 witness: the company request was sent back twice and then resolved,
\* and two jobs of that company were pushed with its fields.
C9_Witness ==
    /\ scrapeCompany
    /\ \E s \in Slugs :
        /\ retryCount[CompanyReq(s)] = 2
        /\ Cardinality({rec \in Joined(s) : rec.company = parseCompanyPage(s)}) >= 2

\* C10: when the run is over and the budget was never used up, a company
\* whose request failed permanently has the empty tombstone in companyCache
\* and every job that was parked for it has been pushed with its detail
\* fields and null company fields.
C10_TombstoneDrain ==
    (Done /\ totalScraped < maxItems) =>
        \A s \in Slugs :
            (MapHas(companyCache, s) /\ companyCache[s] = Tombstone) =>
                \A j \in parked \cap JobsOf(s) :
                    [id |-> j, detail |-> TRUE, company |-> Null] \in sink

\* JOB_DETAIL requests that used up their retries and went to
\* failedRequestHandler.
FailedDetails == {r \in failedReqs : TypeOf(r) = "D"}

\* C11 (as claimed): when the run is over, the job of every JOB_DETAIL
\* request that failed permanently has been pushed.
C11_FailedDetailPushed ==
    Done => \A r \in FailedDetails : pushes[KeyOf(r)] >= 1

\* C11 (amended): when failedRequestHandler runs for a JOB_DETAIL request
\* while totalScraped is below maxItems, it pushes the card data of the
\* request, without detail or company fields.
C11_FailedDetailPushedInBudget ==
    [][\A j \in Jobs :
          (/\ DetailReq(j) \notin failedReqs
           /\ DetailReq(j) \in failedReqs'
           /\ totalScraped < maxItems)
          => /\ pushes'[j] = pushes[j] + 1
             /\ OutputRecord(Card(j)) \in sink']_vars

\* C11 witness: a JOB_DETAIL request used up all its retries, went to
\* failedRequestHandler, and its card is in the sink.
C11_Witness ==
    \E j \in Jobs :
        /\ DetailReq(j) \in failedReqs
        /\ retryCount[DetailReq(j)] = maxRequestRetries
        /\ pushes[j] = 1
        /\ OutputRecord(Card(j)) \in sink

InQueue(r) == \E i \in 1..Len(queue) : queue[i] = r

\* C12: when handleJobDetail gets a 429 or 999 result with totalScraped
\* below maxItems, it pushes and enqueues nothing and leaves scrapedIds,
\* totalScraped, companyCache and pendingCompanies alone, and goes to its
\* backoff sleep; the throw that ends the sleep sends the same request back
\* for another attempt (or, its retries used up, to failedRequestHandler),
\* again without a push.
C12_RateLimitRetry ==
    [][\A j \in Jobs :
        LET r == DetailReq(j) IN
        /\ \A o \in {"s429", "s999"} :
              (totalScraped < maxItems /\ HandleJobDetail(r, o))
              => /\ pc'[r] = "backoff"
                 /\ UNCHANGED <<pushes, sink, enqueued, queue, scrapedIds,
                                totalScraped, companyCache, pendingCompanies>>
        /\ (pc[r] = "backoff" /\ pc'[r] # "backoff")
              => /\ UNCHANGED <<pushes, sink, enqueued, scrapedIds,
                                totalScraped, companyCache, pendingCompanies>>
                 /\ IF retryCount[r] < maxRequestRetries
                    THEN /\ retryCount'[r] = retryCount[r] + 1
                         /\ queue' = Append(queue, r)
                    ELSE pc'[r] = "failed"]_vars

\* C12 witness: a JOB_DETAIL handler is in the backoff sleep of a
\* rate-limited attempt and nothing was pushed for its job.
C12_Witness ==
    \E j \in Jobs : /\ pc[DetailReq(j)] = "backoff"
                    /\ retryCount[DetailReq(j)] >= 1
                    /\ pushes[j] = 0

C14_SearchDiscarded ==
    [][\A n \in SearchPages :
        LET r == SearchReq(n) IN
        /\ \A o \in {"s429", "s999", "other"} :
              HandleSearch(r, o)
              => /\ pc'[r] \in {"idle", "end"}
                 /\ n \notin parsed'
                 /\ UNCHANGED <<queue, known, enqueued, retryCount, pushes,
                                sink, scrapedIds, totalScraped>>
        /\ (pc[r] = "end" /\ pc'[r] # "end")
              => /\ pc'[r] = "idle"
                 /\ UNCHANGED <<queue, known, enqueued, retryCount>>]_vars

\* C14 witness: a search handler is in the sleep that follows a 429 while
\* the budget is not used up, and its page was not parsed.
C14_Witness ==
    \E n \in SearchPages :
        /\ pc[SearchReq(n)] = "end"
        /\ n \notin parsed
        /\ totalScraped < maxItems
        /\ retryCount[SearchReq(n)] = 0

\* C15: a SEARCH or JOB_DETAIL result handled while totalScraped >= maxItems
\* ends the request at once, whatever its status: nothing is pushed or
\* enqueued, the request is not retried, and scrapedIds, companyCache and
\* pendingCompanies stay as they are.
C15_BudgetNoOp ==
    [][\A r \in Req : \A o \in Outcomes :
        (/\ totalScraped >= maxItems
         /\ HandleSearch(r, o) \/ HandleJobDetail(r, o))
        => /\ pc'[r] = "idle"
           /\ UNCHANGED <<queue, known, enqueued, retryCount, pushes, sink,
                          scrapedIds, totalScraped, companyCache,
                          pendingCompanies, parked>>]_vars

\* C15 witness: the budget is used up and a dispatched JOB_DETAIL request was
\* handled on its first attempt without a push or a parked job.
C15_Witness ==
    \E j \in Jobs :
        /\ totalScraped >= maxItems
        /\ enqueued[DetailReq(j)] = 1
        /\ pc[DetailReq(j)] = "idle"
        /\ ~InQueue(DetailReq(j))
        /\ retryCount[DetailReq(j)] = 0
        /\ pushes[j] = 0
        /\ j \notin parked

\* What the outcome of every run with serialized decision steps satisfies
\* (it is an invariant of SerialSpec): the records pushed are exactly the
\* ones counted, never more than maxItems, and unless the budget was used
\* up every job marked seen was pushed exactly once.
SerialOutcome ==
    /\ NumPushed = totalScraped
    /\ NumPushed <= maxItems
    /\ totalScraped < maxItems => \A id \in scrapedIds : pushes[id] = 1

\* C16: the outcome of every finished run, with the handlers interleaving
\* at their awaits, is the outcome of some run whose decision steps ran one
\* request at a time, so it satisfies what all of those satisfy.
C16_Serializable == Done => SerialOutcome

\* Job ids on the cards of the search results that were parsed.
IdsInResults == {id \in Jobs : ParsedWith(id) # {}}

\* C19: when the run is over and the search results held fewer distinct
\* job ids than maxItems, every one of those ids has exactly one pushed
\* record and no other id has any.
C19_OnePerDistinctId ==
    (Done /\ Cardinality(IdsInResults) < maxItems)
    => \A id \in Jobs : pushes[id] = IF id \in IdsInResults THEN 1 ELSE 0

\* C17: every run comes to the point where the queue is empty and no
\* request is in flight (crawler.run() returns), whatever the statuses of
\* the pages, and stays there.
C17_Terminates == <>[]Done

\* C17 witness: a finished run in which a request used up its retries and
\* went to failedRequestHandler.
C17_Witness ==
    /\ Done
    /\ \E r \in failedReqs : retryCount[r] = maxRequestRetries

\* Jobs whose already-known data rode on request r: the card of a
\* JOB_DETAIL request, the passengers of a COMPANY request.
KnownDataOf(r) ==
    IF TypeOf(r) = "D" THEN {KeyOf(r)}
    ELSE IF TypeOf(r) = "C"
    THEN {pendingJobs[r][i].id : i \in 1..Len(pendingJobs[r])}
    ELSE {}

\* C18 (as claimed): when the run is over, the already-known data of every
\* request that was in flight at the moment totalScraped reached maxItems
\* has been pushed.
C18_InFlightStillPushed ==
    Done => \A r \in capInFlight : \A j \in KnownDataOf(r) : pushes[j] >= 1

\* C18 (amended): once totalScraped has reached maxItems no record is
\* handed to the sink any more; what completes after that moment are the
\* pushes already handed over (their handlers were past pushResult's test).
C18_NoPushAfterCap ==
    [][totalScraped >= maxItems => UNCHANGED <<pushes, sink>>]_vars

\* C18 witness: a finished run in which one push that was under way when
\* totalScraped reached maxItems completed after it, and the job of a
\* JOB_DETAIL request in flight at that moment was not pushed.
C18_Witness ==
    /\ Done
    /\ totalScraped > maxItems
    /\ \E r \in capInFlight : TypeOf(r) = "D" /\ pushes[KeyOf(r)] = 0

\* Jobs dispatched for detail-fetching so far.
Dispatched == {j \in Jobs : enqueued[DetailReq(j)] >= 1}

\* C20: the SEARCH request of every shard page is in the queue's history
\* from the start, and once maxItems distinct jobs have been dispatched for
\* detail-fetching no SEARCH request starts to be fetched.
C20_PaginationStops ==
    [][/\ \A n \in 1..numPages : enqueued[SearchReq(n)] = 1
       /\ Cardinality(Dispatched) >= maxItems
            => \A n \in SearchPages :
                  pc'[SearchReq(n)] = "fetch" => pc[SearchReq(n)] = "fetch"]_vars

\* C21: with scrapeJobDetails off no JOB_DETAIL or COMPANY request is ever
\* added to the queue and every record handed to the sink has only the
\* summary fields (no detail, company fields null); and a finished run that
\* started from one search page and parsed it has pushed as many records as
\* the page has cards, up to maxItems.
C21_SummaryOnly ==
    ~scrapeJobDetails =>
        /\ \A r \in Req : TypeOf(r) # "S" => enqueued[r] = 0
        /\ \A rec \in sink : rec.detail = FALSE /\ rec.company = Null
        /\ Done /\ numPages = 1 /\ 1 \in parsed
             => NumPushed = IF maxItems < PageSize THEN maxItems ELSE PageSize

\* C21 witness: a finished summary-only run from one search page whose card
\* count equals maxItems pushed exactly that many records.
C21_Witness ==
    /\ Done
    /\ ~scrapeJobDetails
    /\ numPages = 1
    /\ maxItems = PageSize
    /\ NumPushed = maxItems
    /\ Cardinality(sink) = maxItems

PosInQueue(r) ==
    IF InQueue(r) THEN CHOOSE i \in 1..Len(queue) : queue[i] = r ELSE 0

\* C26 (as claimed): whenever a JOB_DETAIL request and a SEARCH request are
\* both waiting in the queue, the JOB_DETAIL request is ahead of the SEARCH
\* request, so that it is fetched first.
C26_DetailFirst ==
    \A j \in Jobs : \A n \in SearchPages :
        InQueue(DetailReq(j)) /\ InQueue(SearchReq(n))
            => PosInQueue(DetailReq(j)) < PosInQueue(SearchReq(n))

\* C26 (amended): a JOB_DETAIL request waiting for its first attempt is
\* ahead of every waiting SEARCH request, and the crawler fetches from the
\* head of the queue.
C26_NewDetailFirst ==
    \A j \in Jobs : \A n \in SearchPages :
        /\ InQueue(DetailReq(j))
        /\ retryCount[DetailReq(j)] = 0
        /\ InQueue(SearchReq(n))
        => PosInQueue(DetailReq(j)) < PosInQueue(SearchReq(n))

\* C26 witness: a JOB_DETAIL request not yet attempted waits at the head of
\* the queue while a SEARCH request waits behind it.
C26_Witness ==
    \E j \in Jobs : \E n \in SearchPages :
        /\ queue # <<>>
        /\ Head(queue) = DetailReq(j)
        /\ retryCount[DetailReq(j)] = 0
        /\ InQueue(SearchReq(n))

\* Names of the parameters of a query, last value of a name, and how many
\* pairs a query has for a name.
NamesOf(q) == {q[i][1] : i \in 1..Len(q)}
LastValue(q, k) ==
    q[CHOOSE i \in 1..Len(q) :
        q[i][1] = k /\ \A m \in (i + 1)..Len(q) : q[m][1] # k][2]
PairsOf(q, k) == Cardinality({i \in 1..Len(q) : q[i][1] = k})

C27_BackoffIncreases == Len(res) = 2 => res[2] >= res[1]

\* C27 witness: the largest jitter at retryCount n was followed by the
\* smallest jitter at n + 1, for a JOB_DETAIL request.
C27_Witness ==
    /\ Len(res) = 2
    /\ arg.type = "JOB_DETAIL"
    /\ res[1] = arg.retryCount * 3000 + 5000
    /\ res[2] = (arg.retryCount + 1) * 3000 + 2000

\* C28 (as claimed): a page that has a job or company content marker is
\* not classified as a login wall, whatever its status code, login-related
\* markers and length.
C28_ContentNeverWall ==
    res # <<>> /\ arg.markers \cap ContentMarkers # {} => res[1] = FALSE

\* C28 (amended): a page that has a job or company content marker and whose
\* status code is neither 401 nor 403 is not classified as a login wall,
\* whatever its login-related markers and length.
C28_ContentNotWallUnlessDenied ==
    /\ res # <<>>
    /\ arg.markers \cap ContentMarkers # {}
    /\ arg.statusCode \notin {401, 403}
    => res[1] = FALSE

\* C28 witness: a short page with status 200 that has a content marker and
\* every login-related marker was classified as not a login wall.
C28_Witness ==
    /\ res = <<FALSE>>
    /\ arg.statusCode = 200
    /\ arg.length < ShortPageLimit
    /\ LoginMarkers \subseteq arg.markers
    /\ arg.markers \cap ContentMarkers # {}

\* A start URL entry that gives a URL, and the input's entries.
UsableEntries ==
    {i \in 1..Len(input.startUrls) : input.startUrls[i].hasUrl}
Supplied == UsableEntries # {} \/ Len(input.searchKeywords) > 0

\* C22: the startup fails, with nothing enqueued, if and only if the input
\* gives neither a usable start URL nor a keyword; and when it gives one,
\* the crawler starts with something in its queue.
C22_FailsOnlyWithoutInput ==
    /\ startPc = "fatal" => ~Supplied /\ requestQueue = <<>>
    /\ ~Supplied => startPc \in {"validate", "fatal"}
    /\ Supplied /\ startPc = "crawl" => requestQueue # <<>>

\* C23: when the start URLs have an unparseable entry next to a parseable
\* one, the startup does not fail, no request is made of the unparseable
\* entry, and the crawler starts with the requests of the others in its
\* queue, whatever splitSearchByLocation, targetCountry and datePosted are.
C23_MalformedSkipped ==
    (/\ \E i \in UsableEntries : ~input.startUrls[i].url.ok
     /\ \E i \in UsableEntries : input.startUrls[i].url.ok)
    => /\ startPc # "fatal"
       /\ \A i \in 1..Len(requestQueue) : requestQueue[i].url.ok
       /\ startPc = "crawl" => requestQueue # <<>>

\* C25: every call of enqueueSearchPages with a parseable base URL passes
\* ceil(maxItems / 25) URLs to addRequest, the p-th with start offset
\* 25 * (p - 1) whatever start the base URL has and otherwise with the
\* parameters of the base URL, and the queue holds each of them once.
C25_SearchPages ==
    \A c \in 1..Len(enqueueCalls) :
        LET call == enqueueCalls[c]
            n == Len(call.urls)
        IN  call.baseApiUrl.ok
            => /\ 25 * (n - 1) < input.maxItems /\ input.maxItems <= 25 * n
               /\ \A p \in 1..n :
                    /\ PairsOf(call.urls[p].query, "start") = 1
                    /\ GetParam(call.urls[p].query, "start")
                         = ToString(25 * (p - 1))
                    /\ OtherNames(call.urls[p].query, "start")
                         = OtherNames(call.baseApiUrl.query, "start")
                    /\ Cardinality({i \in 1..Len(requestQueue) :
                          requestQueue[i].uniqueKey = call.urls[p]}) = 1
               /\ Cardinality({call.urls[p] : p \in 1..n}) = n

\* C25 witness: the crawler starts after a start URL that came with
\* start=50 was enqueued as two pages, with offsets 0 and 25.
C25_Witness ==
    /\ startPc = "crawl"
    /\ input.maxItems = 26
    /\ \E c \in 1..Len(enqueueCalls) :
         /\ GetParam(enqueueCalls[c].baseApiUrl.query, "start") = "50"
         /\ Len(enqueueCalls[c].urls) = 2
         /\ GetParam(enqueueCalls[c].urls[1].query, "start") = "0"
         /\ GetParam(enqueueCalls[c].urls[2].query, "start") = "25"
         /\ \E i \in 1..Len(requestQueue) :
              requestQueue[i].url = enqueueCalls[c].urls[2]

\* C30: the sharding path is taken exactly when splitSearchByLocation is
\* set and targetCountry is a country of the catalog, and then the crawler
\* starts with one search per city of the country, each with all
\* ceil(maxItems / 25) pages; otherwise the single-location path is taken.
C30_ShardingExactly ==
    LET sharding == /\ input.splitSearchByLocation
                    /\ input.targetCountry \in DOMAIN COUNTRY_CITIES
        cities == CitiesOf(input.targetCountry)
    IN  /\ sharding => "single" \notin paths
        /\ ~sharding => "shard" \notin paths
        /\ \A c \in 1..Len(enqueueCalls) :
             /\ enqueueCalls[c].city # "" <=> sharding
             /\ Len(enqueueCalls[c].urls) = pagesNeeded(input.maxItems)
        /\ sharding /\ startPc = "crawl" /\ paths # {}
             => {enqueueCalls[c].city : c \in 1..Len(enqueueCalls)}
                  = {cities[k] : k \in 1..Len(cities)}

\* The attempt of COMPANY request r that is its last: handleCompany resolves
\* the company (to the parsed data or to the tombstone), or the retries are
\* used up and failedRequestHandler runs.
Terminating(r) ==
    \/ \E o \in Outcomes :
         /\ HandleCompany(r, o)
         /\ CompanyDecision(o, retryCount[r]) \in {"resolve", "tombstone"}
    \/ TypeOf(r) = "C" /\ FailedRequestHandler(r)

\* C31: companyCache gets the entry of a slug in the terminating attempt of
\* the slug's COMPANY request and in no other step, the slug has no entry
\* before that step, no entry is changed or removed afterwards, and when the
\* run is over every slug with a COMPANY request has its entry.
C31_CacheWrittenOnce ==
    [][/\ \A s \in DOMAIN companyCache :
            s \in DOMAIN companyCache' /\ companyCache'[s] = companyCache[s]
       /\ \A r \in Req :
            TypeOf(r) = "C" /\ Terminating(r)
                => /\ SlugOfKey(KeyOf(r)) \notin DOMAIN companyCache
                   /\ SlugOfKey(KeyOf(r)) \in DOMAIN companyCache'
       /\ companyCache' # companyCache
            => \E r \in Req : TypeOf(r) = "C" /\ Terminating(r)
       /\ Done' => \A s \in Slugs :
                      CompanyRequests(s)' >= 1 => s \in DOMAIN companyCache']_vars

\* C31 witness: the run is over, and the entry of a company whose request
\* used up its retries was written by failedRequestHandler.
C31_Witness ==
    /\ Done
    /\ \E r \in failedReqs :
         /\ TypeOf(r) = "C"
         /\ SlugOfKey(KeyOf(r)) \in DOMAIN companyCache

\* The COMPANY request of slug s has resolved the company and its push
\* loops are over.
DrainOver(s) ==
    /\ MapHas(companyCache, s)
    /\ \A k \in CompanyKeys :
         SlugOfKey(k) = s /\ enqueued[CompanyReq(k)] >= 1
             => pc[CompanyReq(k)] \in {"end", "idle"}

\* C32: once the COMPANY request of a slug has resolved and drained, the
\* slug has no entry in pendingCompanies; no job is appended to the pending
\* list of a slug whose company is resolved (its drain has started); and
\* pendingCompanies is empty when the run is over.
C32_PendingDrained ==
    [][/\ \A s \in Slugs : DrainOver(s)' => ~MapHas(pendingCompanies', s)
       /\ \A s \in DOMAIN companyCache :
            Len(Overflow(s)') <= Len(Overflow(s))
       /\ Done' => pendingCompanies' = EmptyMap]_vars

\* Sequence s is the beginning of sequence t.
IsPrefix(s, t) == Len(s) <= Len(t) /\ \A i \in 1..Len(s) : t[i] = s[i]

\* C33: a non-empty pending list only grows at its end, except in a step of
\* the slug's COMPANY resolution (handleCompany or failedRequestHandler
\* resolving the company, or one of their push loops), which alone may
\* remove the list.
C33_ParkedUntilDrained ==
    [][\A s \in DOMAIN pendingCompanies :
          pendingCompanies[s] # <<>>
              => \/ /\ MapHas(pendingCompanies', s)
                    /\ IsPrefix(pendingCompanies[s], pendingCompanies'[s])
                 \/ \E r \in Req :
                      /\ TypeOf(r) = "C"
                      /\ SlugOfKey(KeyOf(r)) = s
                      /\ Terminating(r) \/ HandleDrain(r)]_vars

\* Results of a COMPANY fetch that handleCompany treats as a block: the
\* rate-limit statuses and the login wall.
Blocked == {"s429", "s999", "wall"}

\* C34: a blocked COMPANY attempt with retryCount below 4 sends the request
\* back for another attempt (after the backoff sleep for 429/999, at once
\* for a login wall) and writes nothing to companyCache; a blocked attempt
\* with retryCount 4 or more is resolved by handleCompany to the tombstone;
\* and a COMPANY request goes to failedRequestHandler only from a failure of
\* the fetch itself, never from a throw of handleCompany.
C34_HandlerEndsRetries ==
    [][\A r \in Req : TypeOf(r) = "C" =>
         /\ \A o \in Blocked : HandleCompany(r, o) =>
              IF retryCount[r] < CompanyRetryLimit
              THEN /\ companyCache' = companyCache
                   /\ \/ pc'[r] = "backoff"
                      \/ /\ retryCount'[r] = retryCount[r] + 1
                         /\ retryCount'[r] <= maxRequestRetries
                         /\ InQueue(r)'
              ELSE /\ MapGet(companyCache', SlugOfKey(KeyOf(r))) = Tombstone
                   /\ MapHas(companyCache', SlugOfKey(KeyOf(r)))
                   /\ pc'[r] \in {"drain", "end"}
         /\ pc[r] = "backoff" /\ Throw(r) => pc'[r] # "failed"
         /\ pc[r] # "failed" /\ pc'[r] = "failed" => FetchError(r)]_vars

\* C34 witness: a COMPANY request that was sent back four times has been
\* resolved to the tombstone by handleCompany, without failedRequestHandler.
C34_Witness ==
    \E r \in Req :
        /\ TypeOf(r) = "C"
        /\ retryCount[r] = CompanyRetryLimit
        /\ pc[r] \in {"drain", "end"}
        /\ r \notin failedReqs
        /\ MapHas(companyCache, SlugOfKey(KeyOf(r)))
        /\ companyCache[SlugOfKey(KeyOf(r))] = Tombstone

\* Requests whose handler waits in pushResult for Actor.pushData.
PushesInProgress == {r \in Req : pushing[r]}

\* C35: totalScraped changes only by the increment that ends a pushResult
\* call, one for each record handed to the sink: it never decreases, it is
\* the number of records handed over minus the calls still waiting for
\* Actor.pushData (so it equals that number when no call is in progress),
\* and a step taken with totalScraped >= maxItems hands over nothing.
C35_CounterCountsPushes ==
    [][/\ totalScraped' \in {totalScraped, totalScraped + 1}
       /\ totalScraped' # totalScraped
            => \E r \in Req : PushReturn(r) /\ pushing[r] /\ ~pushing'[r]
       /\ NumPushed' = totalScraped' + Cardinality(PushesInProgress')
       /\ PushesInProgress' = {} => totalScraped' = NumPushed'
       /\ totalScraped >= maxItems
            => /\ NumPushed' = NumPushed
               /\ sink' = sink
               /\ PushesInProgress' \subseteq PushesInProgress]_vars

\* C35 witness: handleCompany went through its push loop with the budget
\* used up: its waiting job was not handed to the sink, and the counter
\* equals the number of records handed over.
C35_Witness ==
    /\ totalScraped = maxItems
    /\ PushesInProgress = {}
    /\ NumPushed = totalScraped
    /\ \E r \in Req :
         /\ TypeOf(r) = "C"
         /\ pc[r] = "end"
         /\ pendingJobs[r] # <<>>
         /\ pushes[Head(pendingJobs[r]).id] = 0

\* C36: every id in scrapedIds has a JOB_DETAIL request added to the queue
\* for it or a record handed to the sink; scrapedIds never loses an id; and
\* an id is added only by a step of handleSearch (its entry or its card
\* loop).
C36_SeenIdsAccountedFor ==
    [][/\ scrapedIds \subseteq scrapedIds'
       /\ scrapedIds' # scrapedIds
            => \E r \in Req :
                 /\ TypeOf(r) = "S"
                 /\ (\E o \in Outcomes : HandleSearch(r, o))
                        \/ HandleSearchLoop(r)
       /\ \A id \in scrapedIds' :
            enqueued'[DetailReq(id)] >= 1 \/ pushes'[id] >= 1]_vars

\* C36 witness: the run is over with two kinds of id in scrapedIds: one
\* dispatched for its detail page and never pushed (the budget was used up
\* first), and one pushed.
C36_Witness ==
    /\ Done
    /\ Cardinality(scrapedIds) >= 2
    /\ \E id \in scrapedIds : enqueued[DetailReq(id)] >= 1 /\ pushes[id] = 0
    /\ \E id \in scrapedIds : pushes[id] >= 1

\* The crawler takes request r from the queue in this step, and a step in
\* which the handler of COMPANY request c hands a waiting job to the sink.
Fetched(r) == pc[r] = "idle" /\ pc'[r] = "fetch"
DrainPush(c) ==
    /\ NumPushed' > NumPushed
    /\ Terminating(c) \/ HandleDrain(c)
\* SEARCH request s has been taken from the queue at least once.
Attempted(s) == ~InQueue(s) \/ retryCount[s] > 0

\* C37 (as claimed): when a COMPANY request is taken from the queue, every
\* SEARCH request that was waiting when it was added has been taken before
\* it and no JOB_DETAIL request is waiting; and when its handler pushes a
\* waiting job, the SEARCH requests that were waiting ahead of it have been
\* handled.
C37_CompanyLast ==
    [][\A c \in Req : TypeOf(c) = "C" =>
         /\ Fetched(c) =>
              /\ \A s \in searchAhead[c] : Attempted(s)
              /\ \A j \in Jobs : ~InQueue(DetailReq(j))
         /\ DrainPush(c) =>
              \A s \in searchAhead[c] : ~InQueue(s) /\ pc[s] = "idle"]_vars

\* C37 (amended): when a COMPANY request is taken from the queue, every
\* SEARCH request that was waiting when it was added has been taken before
\* it and no JOB_DETAIL request is waiting for its first attempt; and when
\* its handler pushes a waiting job, the SEARCH requests that were waiting
\* ahead of it have been taken from the queue.
C37_CompanyAfterWaiting ==
    [][\A c \in Req : TypeOf(c) = "C" =>
         /\ Fetched(c) =>
              /\ \A s \in searchAhead[c] : Attempted(s)
              /\ \A j \in Jobs :
                   ~(InQueue(DetailReq(j)) /\ retryCount[DetailReq(j)] = 0)
         /\ DrainPush(c) =>
              \A s \in searchAhead[c] : Attempted(s)]_vars

\* C37 witness: the handler of a COMPANY request that was added behind a
\* waiting SEARCH request has pushed its waiting job, the SEARCH request
\* having been taken from the queue before.
C37_Witness ==
    \E c \in Req :
        /\ TypeOf(c) = "C"
        /\ searchAhead[c] # {}
        /\ pc[c] = "drain"
        /\ pushing[c]
        /\ \A s \in searchAhead[c] : ~InQueue(s)

\* C38: for a parseable URL and an offset, getStartParam of the result of
\* setStartParam is the offset, and the result has the input's path and,
\* in the input's order, every parameter of the input that is not named
\* start; for an unparseable string setStartParam returns the string and
\* getStartParam returns 0.
C38_StartRoundTrip ==
    /\ Len(res) >= 1
         => IF arg.url.ok
            THEN /\ res[1].ok
                 /\ res[1].path = arg.url.path
                 /\ OtherNames(res[1].query, "start")
                        = OtherNames(arg.url.query, "start")
            ELSE res[1] = arg.url
    /\ Len(res) = 2
         => res[2] = IF arg.url.ok THEN arg.start ELSE 0

\* C38 witness: a URL with a keywords parameter and start=50 was given the
\* offset 25, and getStartParam read 25 back from the result, which still
\* has the keywords parameter.
C38_Witness ==
    /\ Len(res) = 2
    /\ arg.url.ok
    /\ arg.url.query = <<<<"keywords", "dev">>, <<"start", "50">>>>
    /\ arg.start = 25
    /\ res[2] = 25
    /\ res[1].query = <<<<"keywords", "dev">>, <<"start", "25">>>>

====
